---- MODULE Spec2Model ----
(***************************************************************************)
(* Model of the FastAPI + Django ORM user service of src/main.py.          *)
(*                                                                         *)
(* Every ORM call goes through sync_to_async, so each call is one atomic   *)
(* access of the store and the awaits around it are the points where       *)
(* other requests interleave.  update_user_db and delete_user_db make two  *)
(* such calls (get, then save / delete) and are therefore two steps; the   *)
(* requests suspended between the two are kept in the bag inflight.        *)
(*                                                                         *)
(* The model class db_app.models.User is not part of src/; its table       *)
(* (id auto-increment primary key, name, email, created_at set at          *)
(* insertion) follows the data model of spec.md.  The database is the      *)
(* default of src/config/settings.py (SQLite, BigAutoField).               *)
(***************************************************************************)
EXTENDS Integers, Sequences, FiniteSets, Bags, TLC

\* ---- bounds of the model ----
MaxId == 2          \* number of rows the store ever creates
MaxInFlight == 2    \* PUT / DELETE requests in flight at the same time

\* ---- program constants (Field(..., min_length=1, max_length=100)) ----
MinLength == 1
MaxLength == 100

Ids == 1..MaxId

\* A JSON field of a request body: absent, or a string (tag, length).
Absent == [present |-> FALSE, tag |-> "", len |-> 0]
Str(t, n) == [present |-> TRUE, tag |-> t, len |-> n]
Body(n, e) == [name |-> n, email |-> e]

\* the request bodies clients send: two valid ones, with lengths at both
\* ends of the allowed range, and bodies with a field absent, empty or
\* one character too long
ValidBodies ==
    {Body(Str("n", MinLength), Str("e", MinLength)),
     Body(Str("m", MaxLength), Str("f", MaxLength))}
InvalidBodies ==
    {Body(Absent, Str("e", MinLength)),
     Body(Str("n", MinLength), Absent),
     Body(Str("n", MinLength - 1), Str("e", MinLength)),
     Body(Str("n", MinLength), Str("e", MinLength - 1)),
     Body(Str("m", MaxLength + 1), Str("f", MaxLength)),
     Body(Str("m", MaxLength), Str("f", MaxLength + 1))}
Bodies == ValidBodies \cup InvalidBodies

NoBody == Body(Absent, Absent)
NoRow == [id |-> 0, name |-> Absent, email |-> Absent, created_at |-> 0]

\* a validation that lost min_length
FieldOkNoMin(f) == f.present /\ f.len <= MaxLength

\* pydantic validation of one field of UserBase
FieldOk(f) == f.present /\ f.len >= MinLength /\ f.len <= MaxLength

\* pydantic validation of a UserCreate body
UserCreate(b) == FieldOk(b.name) /\ FieldOk(b.email)

\* response_model=User, from_attributes=True: the four attributes are copied
User(u) == [id |-> u.id, name |-> u.name, email |-> u.email,
            created_at |-> u.created_at]

VARIABLES
    store,      \* the User table: a set of rows
    seq,        \* the largest id the table ever assigned (AUTOINCREMENT)
    clock,      \* the current time; it advances between two insertions
    inflight,   \* the PUT and DELETE requests between their two store
                \* accesses: a bag of [op, user, user_in]
    resp,       \* the last response sent
    issued,     \* history: the ids returned by POST /users/, in order
    fresh       \* history: the records returned by POST /users/ on whose
                \* id no save() and no delete() has been run since

vars == <<store, seq, clock, inflight, resp, issued, fresh>>

PKs(s) == {r.id : r \in s}

\* a request suspended at the await of its second ORM call: the loaded
\* object and, for a PUT, the validated body
Request(op, u, b) == [op |-> op, user |-> u, user_in |-> b]

Suspend(bag, r) == bag (+) SetToBag({r})
Resume(bag, r) == bag (-) SetToBag({r})

\* a lookup that ignores the key (objects.first())
get_user_db_first(s, user_id) ==
    IF s # {}
    THEN <<CHOOSE r \in s : \A o \in s : r.id <= o.id>>
    ELSE <<>>

\* UserModel.objects.get(pk=user_id) wrapped by get_user_db: the row or None
get_user_db(s, user_id) ==
    IF user_id \in PKs(s)
    THEN <<CHOOSE r \in s : r.id = user_id>>
    ELSE <<>>

\* the table scan of UserModel.objects.all(): rows in rowid order
RECURSIVE ScanFrom(_, _)
ScanFrom(s, k) ==
    IF k > MaxId THEN <<>>
    ELSE get_user_db(s, k) \o ScanFrom(s, k + 1)

\* a scan in descending order of id
RECURSIVE ScanDown(_, _)
ScanDown(s, k) ==
    IF k < 1 THEN <<>>
    ELSE get_user_db(s, k) \o ScanDown(s, k - 1)

get_all_users_db_desc(s) == ScanDown(s, MaxId)

\* list(UserModel.objects.all())
get_all_users_db(s) == ScanFrom(s, 1)

\* List[User] of the rows
Users(rows) == [i \in 1..Len(rows) |-> User(rows[i])]

\* an id one more than the largest id now in the table (a rowid without
\* AUTOINCREMENT)
NextIdMaxRow(s, q) ==
    IF s = {} THEN 1
    ELSE (CHOOSE i \in PKs(s) : \A j \in PKs(s) : j <= i) + 1

\* the id given to a row inserted without one: AUTOINCREMENT, one more than
\* the largest id the table ever held
NextId(s, q) == q + 1

\* created_at of a row inserted by objects.create(): the time of insertion
created_at_default(now) == now

\* created_at of a row that save() inserts for a loaded object: the value
\* set at creation (created_at is set once and never changed)
created_at_on_insert(u, now) == u.created_at

\* UserModel.objects.create(**user_data.model_dump())
create_user_db(s, q, now, b) ==
    [id |-> NextId(s, q), name |-> b.name, email |-> b.email,
     created_at |-> created_at_default(now)]

\* an update that assigns the name only
AssignedNameOnly(u, b) == [u EXCEPT !.name = b.name]

\* the object after update_user_db assigned name and email
Assigned(u, b) == [u EXCEPT !.name = b.name, !.email = b.email]

\* Model.save() of a loaded object: UPDATE by primary key, writing every
\* field; when no row was updated, INSERT the object under its id
SaveRows(s, u) == {r \in s : r.id # u.id} \cup {u}

\* Model.delete() of a loaded object: DELETE by primary key; no error when
\* the row is already gone
DeleteRows(s, u) == {r \in s : r.id # u.id}

\* a response: the route, the status, the User records of the body, and
\* the request body that a 200 or 201 answers
Response(op, status, req, out) ==
    [op |-> op, status |-> status, req |-> req, out |-> out]

Init ==
    /\ store = {}
    /\ seq = 0
    /\ clock = 0
    /\ inflight = EmptyBag
    /\ resp = Response("NONE", 0, NoBody, <<>>)
    /\ issued = <<>>
    /\ fresh = {}

\* GET /
root ==
    /\ resp' = Response("ROOT", 200, NoBody, <<>>)
    /\ UNCHANGED <<store, seq, clock, inflight, issued, fresh>>

\* POST /users/
create_user(b) ==
    IF ~UserCreate(b)
    THEN /\ resp' = Response("POST", 422, NoBody, <<>>)
         /\ UNCHANGED <<store, seq, clock, inflight, issued, fresh>>
    ELSE /\ seq < MaxId
         /\ clock' = clock + 1
         /\ LET new_user == create_user_db(store, seq, clock', b) IN
              /\ store' = store \cup {new_user}
              /\ seq' = new_user.id
              /\ resp' = Response("POST", 201, b, <<User(new_user)>>)
              /\ issued' = Append(issued, new_user.id)
              /\ fresh' = fresh \cup {User(new_user)}
         /\ UNCHANGED inflight

\* GET /users/
read_users ==
    /\ resp' = Response("LIST", 200, NoBody, Users(get_all_users_db(store)))
    /\ UNCHANGED <<store, seq, clock, inflight, issued, fresh>>

\* GET /users/{user_id}
read_user(user_id) ==
    /\ LET u == get_user_db(store, user_id) IN
         resp' = IF u = <<>>
                 THEN Response("GET", 404, NoBody, <<>>)
                 ELSE Response("GET", 200, NoBody, Users(u))
    /\ UNCHANGED <<store, seq, clock, inflight, issued, fresh>>

\* PUT /users/{user_id}: validation, the read of update_user_db and the
\* assignments to the loaded object
update_user(user_id, b) ==
    /\ IF ~UserCreate(b)
       THEN /\ resp' = Response("PUT", 422, NoBody, <<>>)
            /\ UNCHANGED inflight
       ELSE LET u == get_user_db(store, user_id) IN
            IF u = <<>>
            THEN /\ resp' = Response("PUT", 404, NoBody, <<>>)
                 /\ UNCHANGED inflight
            ELSE /\ BagCardinality(inflight) < MaxInFlight
                 /\ inflight' = Suspend(inflight,
                                        Request("PUT", Assigned(u[1], b), b))
                 /\ UNCHANGED resp
    /\ UNCHANGED <<store, seq, clock, issued, fresh>>

\* PUT /users/{user_id}: user.save() of update_user_db and the 200
update_user_save(r) ==
    /\ BagIn(r, inflight)
    /\ r.op = "PUT"
    /\ LET u == IF r.user.id \in PKs(store)
                THEN r.user
                ELSE [r.user EXCEPT
                        !.created_at = created_at_on_insert(r.user, clock)]
       IN /\ store' = SaveRows(store, u)
          /\ resp' = Response("PUT", 200, r.user_in, <<User(u)>>)
    /\ fresh' = {c \in fresh : c.id # r.user.id}
    /\ inflight' = Resume(inflight, r)
    /\ UNCHANGED <<seq, clock, issued>>

\* DELETE /users/{user_id}: the read of delete_user_db.  Of the object it
\* loaded, user.delete() uses the primary key only.
delete_user(user_id) ==
    /\ LET u == get_user_db(store, user_id) IN
         IF u = <<>>
         THEN /\ resp' = Response("DELETE", 404, NoBody, <<>>)
              /\ UNCHANGED inflight
         ELSE /\ BagCardinality(inflight) < MaxInFlight
              /\ inflight' = Suspend(inflight,
                        Request("DELETE", [NoRow EXCEPT !.id = u[1].id], NoBody))
              /\ UNCHANGED resp
    /\ UNCHANGED <<store, seq, clock, issued, fresh>>

\* DELETE /users/{user_id}: user.delete() of delete_user_db and the 204
delete_user_delete(r) ==
    /\ BagIn(r, inflight)
    /\ r.op = "DELETE"
    /\ store' = DeleteRows(store, r.user)
    /\ resp' = Response("DELETE", 204, NoBody, <<>>)
    /\ fresh' = {c \in fresh : c.id # r.user.id}
    /\ inflight' = Resume(inflight, r)
    /\ UNCHANGED <<seq, clock, issued>>

Next ==
    \/ root
    \/ \E b \in Bodies : create_user(b)
    \/ read_users
    \/ \E i \in Ids : read_user(i)
    \/ \E i \in Ids, b \in Bodies : update_user(i, b)
    \/ \E r \in BagToSet(inflight) : update_user_save(r)
    \/ \E i \in Ids : delete_user(i)
    \/ \E r \in BagToSet(inflight) : delete_user_delete(r)

Spec == Init /\ [][Next]_vars

(***************************************************************************)
(* Claims                                                                  *)
(***************************************************************************)

\* position of an id in the order of creation
Pos(i) == CHOOSE k \in 1..Len(issued) : issued[k] = i

\* C1: the ids of the persisted rows are pairwise distinct, and every id
\* returned by POST /users/ is positive and differs from every id returned
\* by an earlier POST, whether or not that record was deleted since.
C1_IdsUniqueNeverReused ==
    /\ \A r1 \in store : \A r2 \in store : r1.id = r2.id => r1 = r2
    /\ \A k \in 1..Len(issued) :
         /\ issued[k] > 0
         /\ \A j \in 1..(k - 1) : issued[j] # issued[k]

\* C1 witness: a POST was just answered after the record of an earlier
\* POST had been deleted.
C1_Witness ==
    /\ resp.op = "POST" /\ resp.status = 201
    /\ Len(issued) = 2
    /\ issued[1] \notin PKs(store)
    /\ issued[2] \in PKs(store)

\* C2: a GET /users/{id} of an id returned by POST, on which no update and
\* no delete has run, answers 200 with the record the POST returned; a GET
\* of an id without a row answers 404.
C2_CreateGetRoundTrip ==
    [][\A i \in Ids :
         read_user(i) =>
           /\ \A c \in fresh :
                c.id = i => resp' = Response("GET", 200, NoBody, <<c>>)
           /\ i \notin PKs(store) => (resp'.status = 404 /\ resp'.out = <<>>)
      ]_vars

\* C2 witness: a GET returned the record of a POST while another record
\* has been updated or deleted.
C2_Witness ==
    /\ resp.op = "GET" /\ resp.status = 200
    /\ \E c \in fresh : resp.out = <<c>>
    /\ Len(issued) = 2
    /\ Cardinality(fresh) = 1

C4_UpdateNeverCreates ==
    [][/\ \A r \in BagToSet(inflight) :
            (update_user_save(r) /\ r.user.id \notin PKs(store)) =>
              (resp'.status = 404 /\ store' = store)
       /\ \A i \in Ids : \A b \in Bodies :
            (update_user(i, b) /\ i \notin PKs(store)) =>
              (resp'.status \in {404, 422} /\ store' = store)
      ]_vars

\* C5 (as claimed): an id that POST returned and that has no row (its
\* DELETE was answered 204: only delete_user_delete removes a row) has no
\* row in any later state, so every later GET answers 404.
C5_DeletedStaysDeleted ==
    [][\A k \in 1..Len(issued) :
         issued[k] \notin PKs(store) => issued[k] \notin PKs(store')
      ]_vars

\* a field that validation has to reject
Rejected(f) == ~f.present \/ f.len = 0 \/ f.len > 100

\* a step that answers 422 and changes nothing else
Answers422 ==
    /\ resp'.status = 422
    /\ store' = store /\ seq' = seq /\ inflight' = inflight

\* the request bodies that validation has to reject
RejectedBodies == {b \in Bodies : Rejected(b.name) \/ Rejected(b.email)}

\* C6: a POST or PUT whose body has name or email absent, empty or longer
\* than 100 is answered 422 and changes neither the table nor its id
\* sequence, for a PUT whether or not the id has a row; every persisted row
\* has a name and an email of length 1 to 100.  (A step that is not such an
\* answer handles no such request: a POST step is create_user of no such
\* body, and a step that answers a PUT or changes the requests in flight
\* is update_user of no such body.)
C6_ValidationBeforeStore ==
    [][/\ \/ Answers422
          \/ /\ resp'.op = "POST" =>
                  \A b \in RejectedBodies : ~create_user(b)
             /\ (resp'.op = "PUT" \/ inflight' # inflight) =>
                  \A b \in RejectedBodies : \A i \in Ids : ~update_user(i, b)
       /\ \A r \in store' :
            /\ r.name.present /\ r.name.len >= 1 /\ r.name.len <= 100
            /\ r.email.present /\ r.email.len >= 1 /\ r.email.len <= 100
      ]_vars

\* C6 witness: a PUT was answered 422 while the table holds its one row.
C6_Witness ==
    /\ resp.op = "PUT" /\ resp.status = 422
    /\ seq = 1
    /\ Cardinality(store) = 1

\* C7 (as claimed): a DELETE is answered 204 only by a call that found the
\* row in the table and removed it.
C7_DeleteTrueOnlyIfRemoved ==
    [][\A r \in BagToSet(inflight) :
         delete_user_delete(r) =>
           (r.user.id \in PKs(store) /\ r.user.id \notin PKs(store'))
      ]_vars

\* C8 (as claimed): a PUT answered 200 replaces the name and the email of
\* the row of its id by those of the body, keeps the id and created_at of
\* that row, changes, adds and removes no other row, and returns the row
\* it persisted.
C8_UpdateFrame ==
    [][\A r \in BagToSet(inflight) :
         update_user_save(r) =>
           \E old \in store :
             LET new == [old EXCEPT !.name = r.user_in.name,
                                    !.email = r.user_in.email]
             IN /\ old.id = r.user.id
                /\ store' = (store \ {old}) \cup {new}
                /\ resp'.status = 200
                /\ resp'.out = <<User(new)>>
      ]_vars

\* a store access made for a request other than the in-flight request r
OtherStoreAccess(r) ==
    \/ \E b \in ValidBodies : create_user(b)
    \/ read_users
    \/ \E i \in Ids : read_user(i)
    \/ \E i \in Ids : delete_user(i)
    \/ \E i \in Ids : \E b \in ValidBodies : update_user(i, b)
    \/ \E q \in BagToSet(inflight) \ {r} :
         update_user_save(q) \/ delete_user_delete(q)

\* C9 (as claimed): no store access of another request takes place between
\* the first and the last store access of an operation.
C9_SingleRoundTrip ==
    [][\A r \in BagToSet(inflight) : ~OtherStoreAccess(r)]_vars

\* the (name, email) pair of a record is the pair of one request body
Whole(u) == \E b \in Bodies : u.name = b.name /\ u.email = b.email

\* C10: the name and the email of every persisted row, and of every record
\* a response returns, are those of one single request body (no request
\* carries the name of one of the bodies with the email of another), and
\* the record a POST or PUT returns and persists has the name and the email
\* of the body of that request.
C10_NoTornRecords ==
    /\ \A r \in store : Whole(r)
    /\ \A k \in 1..Len(resp.out) : Whole(resp.out[k])
    /\ resp.status \in {200, 201} /\ resp.op \in {"POST", "PUT"} =>
         /\ resp.out[1].name = resp.req.name
         /\ resp.out[1].email = resp.req.email
         /\ \E r \in store : User(r) = resp.out[1]

\* C10 witness: a PUT was saved while another PUT with a different body
\* for the same id is between its read and its save.
C10_Witness ==
    /\ resp.op = "PUT" /\ resp.status = 200
    /\ \E r \in BagToSet(inflight) :
         /\ r.op = "PUT"
         /\ r.user.id = resp.out[1].id
         /\ r.user_in.name # resp.req.name
         /\ r.user_in.email # resp.req.email
====
